---- MODULE Spec2Model ----
(***************************************************************************)
(* Model of the replicated write engine of libelliptics_proxy              *)
(* (src/src/proxy.cpp): the quorum policy, the write helper and            *)
(* elliptics_proxy_t::impl::write_impl with its chunked upload protocol.   *)
(*                                                                         *)
(* The storage session is an external collaborator.  A session call is     *)
(* issued by the proxy and answered by the environment: a body call is     *)
(* answered by the list of groups that replied without error (the session's*)
(* default filter keeps the positive entries only) or, when no group       *)
(* accepted, possibly by an exception raised out of .get().                *)
(* write_impl is cut at its suspension points (.get() of a body call and   *)
(* the metadata write); everything between two suspension points is one    *)
(* step.                                                                   *)
(***************************************************************************)
EXTENDS Integers, Sequences, FiniteSets, TLC

\* ------------------------------------------------------------------ bounds
MaxGroup == 3
MaxSize == 4
MaxChunk == 2
MaxOffset == 1
MaxN == 2
MaxR == 7
\* largest count given to get_groups
MaxCount == 4
\* most entries in one lookup response
MaxEntries == 2
\* most session lookups of one lookup call
MaxLookups == 4
\* keys are 1..MaxKey
MaxKey == 2
\* most entries in the answer of one group to a range read
MaxRecords == 2
\* most synchronous refreshes by caller threads
MaxRequests == 2
\* largest value the uninitialized stamp member starts with
MaxStamp == 1
\* concurrent operations
MaxThreads == 2

\* ------------------------------------------------------- program constants
SUCCESS_COPIES_TYPE__ANY == -1
SUCCESS_COPIES_TYPE__QUORUM == -2
SUCCESS_COPIES_TYPE__ALL == -3

DNET_IO_FLAGS_PREPARE == "PREPARE"
DNET_IO_FLAGS_COMMIT == "COMMIT"
DNET_IO_FLAGS_PLAIN_WRITE == "PLAIN_WRITE"
DNET_IO_FLAGS_NODATA == "NODATA"
\* a command flag; a flags word is the set of the flags set in it
DNET_FLAGS_NOLOCK == "NOLOCK"

\* the metabalancer usage modes, in the order the comparisons of the code use
PROXY_META_NONE == 0
PROXY_META_OPTIONAL == 1
PROXY_META_NORMAL == 2
PROXY_META_MANDATORY == 3

VARIABLES
    \* configuration held by the impl object
    m_groups, m_success_copies_num, m_die_limit, m_replication_count, m_chunk_size,
    m_metabase_usage,
    \* the groups, replication_count and success_copies_num fields of the config the
    \* object was constructed from
    c_groups, c_replication_count, c_success_copies_num,
    \* position of the running write_impl call and its outcome
    pc, outcome,
    \* arguments of the running call
    a_by_id, a_content_size, a_offset, a_size, a_ioflags, a_groups, a_state_num,
    a_cflags, a_success_copies_num,
    \* locals of the running call
    replication_count, success_copies_num, lgroups, chunked, offset, last_iter,
    \* write_helper_t
    desired_groups, upload_groups, ret,
    \* the session object of the call, the calls it issued, the store
    session_groups, calls, holds, session_cflags,
    \* inputs and result of the quorum predicate evaluation
    q_mode, q_R, q_s, q_res,
    \* the last get_groups / remove_async_impl call: arguments, result, session calls
    g_op, g_groups, g_count, g_res, g_threw, g_calls,
    \* the addresses the last lookup_addr_impl call returned
    g_addrs,
    \* the running lookup_impl call: position, outcome, arguments, locals,
    \* the group lists it queried, the last response, the groups it dropped
    l_pc, l_outcome, l_groups, l_state_num, l_sel, l_lgroups, l_queries, l_resp,
    l_dropped, l_result,
    \* the last bulk_write_impl / bulk_read_impl / range_get_impl call: its
    \* arguments, locals, the session's answer, the calls issued, the result
    b_op, b_keys, b_ndata, b_groups, b_scn, b_ioflags, b_rc, b_lgroups, b_resp,
    b_calls, b_outcome, b_res,
    \* the metabalancer members of the impl object (m_cocaine_dealer: a dealer
    \* was created), the notification pending on the condition variable
    m_cocaine_dealer, m_done, m_metabase_current_stamp, m_mutex,
    m_weight_cache_initialized, cv_notified,
    \* the thread of collect_group_weights_loop: position, tm, the stamp it
    \* read, what ended its last wait
    w_pc, w_tm, w_stamp, w_cause,
    \* the thread in ~impl, the thread in get_metabalancer_groups_impl
    d_pc, c_pc, c_stamp,
    \* the get_group_weights requests sent to the metabalancer
    requests,
    \* concurrent operations: per thread the position, the operation, its
    \* arguments, its lgroups and the storage call it issued; the session objects
    t_pc, t_op, t_args, t_lgroups, t_call, sessions

cfgrest == <<m_success_copies_num, m_die_limit, m_replication_count, m_chunk_size,
             m_metabase_usage, c_groups, c_replication_count, c_success_copies_num>>
cfgvars == <<m_groups, cfgrest>>
argvars == <<a_by_id, a_content_size, a_offset, a_size, a_ioflags, a_groups, a_state_num,
             a_cflags, a_success_copies_num>>
locvars == <<replication_count, success_copies_num, lgroups, chunked, offset, last_iter>>
helpervars == <<desired_groups, upload_groups, ret>>
sessvars == <<session_groups, calls, holds, session_cflags>>
qvars == <<q_mode, q_R, q_s, q_res>>
gvars == <<g_op, g_groups, g_count, g_res, g_threw, g_calls, g_addrs>>
lvars == <<l_pc, l_outcome, l_groups, l_state_num, l_sel, l_lgroups, l_queries, l_resp,
           l_dropped, l_result>>
bvars == <<b_op, b_keys, b_ndata, b_groups, b_scn, b_ioflags, b_rc, b_lgroups, b_resp,
           b_calls, b_outcome, b_res>>
wvars == <<m_cocaine_dealer, m_done, m_metabase_current_stamp, m_mutex,
           m_weight_cache_initialized, cv_notified, w_pc, w_tm, w_stamp, w_cause,
           d_pc, c_pc, c_stamp, requests>>
tvars == <<t_pc, t_op, t_args, t_lgroups, t_call, sessions>>
concvars == <<wvars, tvars>>
latervars == <<bvars, concvars>>
othervars == <<qvars, gvars, lvars, latervars>>
writevars == <<pc, outcome, argvars, locvars, helpervars, sessvars>>
vars == <<cfgvars, pc, outcome, argvars, locvars, helpervars, sessvars, qvars, gvars, lvars,
          latervars>>

\* ----------------------------------------------------------------- helpers
Range(s) == {s[i] : i \in 1..Len(s)}

Min(a, b) == IF a < b THEN a ELSE b

\* <<k, 1, ..., k-1>>
Rot(k) == [i \in 1..k |-> IF i = 1 THEN k ELSE i - 1]

\* the group lists a caller passes: none, or some groups of 1..MaxGroup
GroupLists == {<<>>, [i \in 1..MaxGroup |-> i]} \cup {Rot(k) : k \in 1..MaxGroup}

\* std::sort on vector<int>
sort(s) == SortSeq(s, LAMBDA x, y : x < y)

\* std::set_difference on two sorted ranges
RECURSIVE set_difference(_, _)
set_difference(a, b) ==
    IF a = <<>> THEN <<>>
    ELSE IF b = <<>> THEN a
    ELSE IF Head(a) < Head(b) THEN <<Head(a)>> \o set_difference(Tail(a), b)
    ELSE IF Head(b) < Head(a) THEN set_difference(a, Tail(b))
    ELSE set_difference(Tail(a), Tail(b))

\* -------------------------------------------------------------- quorum policy
uploads_need(scn, rc) ==
    CASE scn = SUCCESS_COPIES_TYPE__ANY -> 1
      [] scn = SUCCESS_COPIES_TYPE__QUORUM -> (rc \div 2) + 1
      [] scn = SUCCESS_COPIES_TYPE__ALL -> rc
      [] OTHER -> rc

\* QUORUM computed without the "+ 1"
upload_is_good_half(scn, rc, size) ==
    CASE scn = SUCCESS_COPIES_TYPE__ANY -> size >= 1
      [] scn = SUCCESS_COPIES_TYPE__QUORUM -> size >= (rc \div 2)
      [] scn = SUCCESS_COPIES_TYPE__ALL -> size = rc
      [] OTHER -> IF scn < 0 THEN FALSE ELSE size >= scn

\* the first parameter is a size_t: any other negative value is a huge number
upload_is_good(scn, rc, size) ==
    CASE scn = SUCCESS_COPIES_TYPE__ANY -> size >= 1
      [] scn = SUCCESS_COPIES_TYPE__QUORUM -> size >= ((rc \div 2) + 1)
      [] scn = SUCCESS_COPIES_TYPE__ALL -> size = rc
      [] OTHER -> IF scn < 0 THEN FALSE ELSE size >= scn

\* ------------------------------------------------------------ write_helper_t
\* the helper tests the desired count instead of the uploaded one
helper_upload_is_good_any(scn, rc, ug) == upload_is_good(scn, rc, rc)

helper_upload_is_good(scn, rc, ug) == upload_is_good(scn, rc, Len(ug))

has_incomplete_groups(dg, ug) == Len(dg) # Len(ug)

\* the difference is taken without sorting the two ranges first
get_incomplete_groups_unsorted(dg, ug) == set_difference(dg, ug)

get_incomplete_groups(dg, ug) == set_difference(sort(dg), sort(ug))

\* ------------------------------------------------------------- group selector
\* std::random_shuffle over a range: any arrangement of its elements
Perms(t) ==
    {[i \in 1..Len(t) |-> t[p[i]]] :
        p \in {f \in [1..Len(t) -> 1..Len(t)] : \A i, j \in 1..Len(t) : i # j => f[i] # f[j]}}

\* the whole list is shuffled, the head included
random_shuffle_all(s) == Perms(s)

\* lines 1235-1239: the default list keeps its head, the rest is shuffled
random_shuffle_tail(s) ==
    IF Len(s) > 1 THEN {<<Head(s)>> \o t : t \in Perms(Tail(s))} ELSE {s}

\* the caller's list is shuffled like the default list
get_groups_shuffled(groups, count) ==
    LET cand == random_shuffle_tail(IF Len(groups) # 0 THEN groups ELSE m_groups)
        cut(l) == IF count # 0 /\ count < Len(l) THEN SubSeq(l, 1, count) ELSE l
    IN  {cut(l) : l \in cand} \ {<<>>}

\* get_groups(key, groups, count): the lists it can return; it throws
\* "There is no groups" exactly when the set is empty
get_groups(groups, count) ==
    LET cand == IF Len(groups) # 0 THEN {groups} ELSE random_shuffle_tail(m_groups)
        cut(l) == IF count # 0 /\ count < Len(l) THEN SubSeq(l, 1, count) ELSE l
    IN  {cut(l) : l \in cand} \ {<<>>}

\* the default list is shuffled in place: the member takes the order chosen
m_groups_after_shuffled(groups, sel) ==
    IF groups = <<>> /\ Len(sel) = Len(m_groups) THEN sel ELSE m_groups

\* lines 1227, 1234: get_groups is a const member and shuffles and cuts the
\* copy lgroups; m_groups after a call that selected sel for the argument groups
m_groups_after(groups, sel) == m_groups

\* ------------------------------------------------------------------- session
\* data_pointer::slice(off, n) of a content of S bytes: the bytes
\* [off, min(S, off + n)), none if off is past the end
slice(S, off, n) ==
    LET end == Min(S, off + n) IN IF off >= end THEN 0 ELSE end - off

Call(op, groups, off, len, reserved, reply) ==
    [op |-> op, groups |-> groups, offset |-> off, len |-> len,
     reserved |-> reserved, reply |-> reply, ok |-> <<>>]

BodyOps == {"write_prepare", "write_plain", "write_commit", "write_data"}

LastCall == calls[Len(calls)]

\* the entries a body call can return: the groups of the session, in order,
\* that replied without error
Replies(groups) == {SelectSeq(groups, LAMBDA g : g \in S) : S \in SUBSET Range(groups)}

Answered(cs, reply, ok) ==
    [cs EXCEPT ![Len(cs)] = [@ EXCEPT !.reply = reply, !.ok = ok]]

\* ---------------------------------------------------------------- write_impl
IoFlagSets == SUBSET {DNET_IO_FLAGS_PREPARE, DNET_IO_FLAGS_COMMIT, DNET_IO_FLAGS_PLAIN_WRITE}

\* the test of the io flags is missing
IsChunked_anyflags(cs, S, by_id, ioflags) ==
    cs # 0 /\ S > cs /\ ~by_id

IsChunked(cs, S, by_id, ioflags) ==
    /\ cs # 0 /\ S > cs /\ ~by_id
    /\ ioflags \cap {DNET_IO_FLAGS_PREPARE, DNET_IO_FLAGS_COMMIT, DNET_IO_FLAGS_PLAIN_WRITE} = {}

\* the comparison with the die limit is reversed
TooFewStates_reversed(state_num, die_limit) == state_num > die_limit

\* line 596 (1083): the session has fewer live states than the die limit
TooFewStates(state_num, die_limit) == state_num < die_limit

\* the target list is not cut to the replication count
TruncateToR_none(sel, rc) == sel

\* lines 624-625 (1108-1109)
TruncateToR(sel, rc) ==
    IF rc # 0 /\ rc < Len(sel) THEN SubSeq(sel, 1, rc) ELSE sel

\* the metadata is written to the desired groups
MetadataGroups_desired(dg, ug) == dg

\* line 714: the groups of the metadata write
MetadataGroups(dg, ug) == ug

\* offset of the prepare call of a chunked upload
PrepareOffset(off) == off

\* the session keeps the full target list for every chunk
NextChunkGroups_all(dg, ug) == dg

\* groups the next chunk is sent to
NextChunkGroups(dg, ug) == ug

\* the next chunk is the last one
IsLastChunk(off, cs, S) == off + cs >= S

LoopContinues(good, off, cs, S) == good /\ off + cs < S

\* the rejected upload is removed from the groups that replied last only
RejectRemoveGroups_survivors(lg, ug) == ug

\* the rejected upload is removed from the groups that failed last only
RejectRemoveGroups_failed(lg, ug) == SelectSeq(lg, LAMBDA g : g \notin Range(ug))

\* groups of the remove issued when the upload is rejected
RejectRemoveGroups(lg, ug) == lg

\* the compensation is not restricted to chunked uploads
NeedCompensation_always(ch, dg, ug) == has_incomplete_groups(dg, ug)

NeedCompensation(ch, dg, ug) == ch /\ has_incomplete_groups(dg, ug)

\* the lookups of every call are appended to the result
update_lookup_append(old, ok, update_ret) == old \o ok

\* lines 84-100: write_helper_t::update_lookup, the result vector; it is
\* replaced by the lookups of the call when update_ret is set, kept otherwise
update_lookup(old, ok, update_ret) == IF update_ret THEN ok ELSE old

\* COMMIT is tested before PREPARE
FirstCall_commit_first(ioflags, ch, S, off, size, lg) ==
    IF DNET_IO_FLAGS_COMMIT \in ioflags
        THEN Call("write_commit", lg, off, S, size, "pending")
    ELSE IF DNET_IO_FLAGS_PREPARE \in ioflags
        THEN Call("write_prepare", lg, off, S, size, "pending")
    ELSE IF DNET_IO_FLAGS_PLAIN_WRITE \in ioflags
        THEN Call("write_plain", lg, off, S, 0, "pending")
    ELSE IF ch
        THEN Call("write_prepare", lg, PrepareOffset(off),
                  slice(S, PrepareOffset(off), m_chunk_size), S, "pending")
    ELSE Call("write_data", lg, off, S, 0, "pending")

\* lines 644-656, 678 (1117-1125): the first body call of a write
FirstCall(ioflags, ch, S, off, size, lg) ==
    IF DNET_IO_FLAGS_PREPARE \in ioflags
        THEN Call("write_prepare", lg, off, S, size, "pending")
    ELSE IF DNET_IO_FLAGS_COMMIT \in ioflags
        THEN Call("write_commit", lg, off, S, size, "pending")
    ELSE IF DNET_IO_FLAGS_PLAIN_WRITE \in ioflags
        THEN Call("write_plain", lg, off, S, 0, "pending")
    ELSE IF ch
        THEN Call("write_prepare", lg, PrepareOffset(off),
                  slice(S, PrepareOffset(off), m_chunk_size), S, "pending")
    ELSE Call("write_data", lg, off, S, 0, "pending")

\* lines 600-602 (1087-1089, 911, 919-920): the replication count of a call
resolve_replication_count_configured(groups) == m_replication_count

resolve_replication_count(groups) ==
    IF Len(groups) = 0 THEN m_replication_count ELSE Len(groups)

\* lines 603-605 (967): the success mode of a call
resolve_success_copies_num(scn) == IF scn = 0 THEN m_success_copies_num ELSE scn

\* line 716: the flags word given to set_cflags after the metadata write
RestoredCflags(cflags, ioflags) == ioflags

\* what get_metabalancer_groups_impl gives for count groups: it raises, or
\* returns the choice of the weight cache
MetabalancerResults(count) ==
    {[threw |-> TRUE, groups |-> <<>>]}
    \cup {[threw |-> FALSE, groups |-> g] :
            g \in {<<>>, [i \in 1..Min(count, MaxGroup) |-> i]}}

\* lines 608-623 (1092-1107): the target list after the metabase block, and
\* whether the block failed the call; sel is the list of get_groups
MetabaseTargets(sel, groups, rc) ==
    IF m_metabase_usage < PROXY_META_OPTIONAL
      THEN {[failed |-> FALSE, lg |-> sel]}
    ELSE IF Len(groups) # rc \/ m_metabase_usage = PROXY_META_MANDATORY
      THEN {[failed |-> r.threw /\ m_metabase_usage >= PROXY_META_NORMAL,
             lg |-> IF r.threw THEN sel ELSE r.groups] : r \in MetabalancerResults(rc)}
    ELSE {[failed |-> FALSE, lg |-> sel]}

IdleLocals ==
    /\ a_by_id = FALSE /\ a_content_size = 0 /\ a_offset = 0 /\ a_size = 0
    /\ a_ioflags = {} /\ a_groups = <<>> /\ a_state_num = 0
    /\ a_cflags = {} /\ a_success_copies_num = 0 /\ session_cflags = {}
    /\ replication_count = 0 /\ success_copies_num = 0 /\ lgroups = <<>>
    /\ chunked = FALSE /\ offset = 0 /\ last_iter = FALSE
    /\ desired_groups = <<>> /\ upload_groups = <<>> /\ ret = <<>>
    /\ session_groups = <<>> /\ calls = <<>> /\ holds = {}

\* no get_groups / remove_async_impl call was made yet
IdleG ==
    /\ g_op = "none" /\ g_groups = <<>> /\ g_count = 0
    /\ g_res = <<>> /\ g_threw = FALSE /\ g_calls = <<>> /\ g_addrs = <<>>

\* no lookup_impl call is running
IdleL ==
    /\ l_pc = "idle" /\ l_outcome = "none" /\ l_groups = <<>> /\ l_state_num = 0
    /\ l_sel = <<>> /\ l_lgroups = <<>> /\ l_queries = <<>> /\ l_resp = <<>>
    /\ l_dropped = {} /\ l_result = 0

\* no bulk or range call was made yet
IdleB ==
    /\ b_op = "none" /\ b_keys = <<>> /\ b_ndata = 0 /\ b_groups = <<>> /\ b_scn = 0
    /\ b_ioflags = {} /\ b_rc = 0 /\ b_lgroups = <<>> /\ b_resp = <<>>
    /\ b_calls = <<>> /\ b_outcome = "none" /\ b_res = <<>>

\* a proxy without a metabalancer transport, alive
IdleW ==
    /\ m_cocaine_dealer = FALSE /\ m_done = FALSE /\ m_metabase_current_stamp = 0
    /\ m_mutex = "none" /\ m_weight_cache_initialized = FALSE /\ cv_notified = FALSE
    /\ w_pc = "none" /\ w_tm = "timeout" /\ w_stamp = 0 /\ w_cause = "start"
    /\ d_pc = "alive" /\ c_pc = "idle" /\ c_stamp = 0 /\ requests = <<>>

\* a session as constructed from the node: no groups, no flags, the default filter
DefaultSession == [groups |-> <<>>, cflags |-> 0, ioflags |-> 0, filter |-> "positive"]

NoArgs == [groups |-> <<>>, cflags |-> 0, ioflags |-> 0]

\* no operation is running on any thread
IdleT ==
    /\ t_pc = [t \in 1..MaxThreads |-> "idle"]
    /\ t_op = [t \in 1..MaxThreads |-> "none"]
    /\ t_args = [t \in 1..MaxThreads |-> NoArgs]
    /\ t_lgroups = [t \in 1..MaxThreads |-> <<>>]
    /\ t_call = [t \in 1..MaxThreads |-> <<>>]
    /\ sessions = [t \in 1..MaxThreads |-> DefaultSession]

IdleLater == IdleB /\ IdleW /\ IdleT

SuccessModes ==
    {0, SUCCESS_COPIES_TYPE__ANY, SUCCESS_COPIES_TYPE__QUORUM, SUCCESS_COPIES_TYPE__ALL}
        \cup 1..MaxN

\* the arguments of the write calls: every call without io flags over the
\* bounds, calls of every PREPARE/COMMIT/PLAIN_WRITE flavour, calls with a
\* command flag
WriteArgs ==
    [by_id : BOOLEAN, S : 1..MaxSize, off : 0..MaxOffset, ioflags : {{}},
     groups : GroupLists, scn : SuccessModes, cflags : {{}}]
    \cup
    [by_id : {FALSE}, S : {1, MaxSize}, off : {0}, ioflags : IoFlagSets \ {{}},
     groups : {<<>>, Rot(MaxGroup)}, scn : {0, SUCCESS_COPIES_TYPE__ALL, 1}, cflags : {{}}]
    \cup
    [by_id : {FALSE}, S : {1, MaxSize}, off : {0}, ioflags : {{}, {DNET_IO_FLAGS_COMMIT}},
     groups : {<<>>, Rot(MaxGroup)}, scn : {0}, cflags : {{DNET_FLAGS_NOLOCK}}]

\* lines 586-656 (645-649, 678): pre-checks, group selection, first body call
WriteBegin ==
    /\ pc = "idle"
    /\ \E a \in WriteArgs, state_num \in 0..1 :
        LET rc == resolve_replication_count(a.groups)
            sc == resolve_success_copies_num(a.scn)
        IN  /\ a_by_id' = a.by_id /\ a_content_size' = a.S /\ a_offset' = a.off
            /\ a_size' = 0 /\ a_ioflags' = a.ioflags /\ a_groups' = a.groups
            /\ a_state_num' = state_num
            /\ a_cflags' = a.cflags /\ a_success_copies_num' = a.scn
            /\ session_cflags' = a.cflags
            /\ IF TooFewStates(state_num, m_die_limit)
                 THEN /\ pc' = "failed" /\ outcome' = "TooFewStates"
                      /\ UNCHANGED <<locvars, helpervars, session_groups, calls, holds>>
               ELSE IF get_groups(a.groups, 0) = {}
                 THEN /\ pc' = "failed" /\ outcome' = "NoGroups"
                      /\ replication_count' = rc /\ success_copies_num' = sc
                      /\ UNCHANGED <<lgroups, chunked, offset, last_iter>>
                      /\ UNCHANGED <<helpervars, session_groups, calls, holds>>
               ELSE \E sel \in get_groups(a.groups, 0) :
                    \E t \in MetabaseTargets(sel, a.groups, rc) :
                      LET lg == TruncateToR(t.lg, rc)
                          ch == IsChunked(m_chunk_size, a.S, a.by_id, a.ioflags)
                          c == FirstCall(a.ioflags, ch, a.S, a.off, 0, lg)
                      IN  /\ replication_count' = rc /\ success_copies_num' = sc
                          /\ IF t.failed
                               THEN /\ pc' = "failed" /\ outcome' = "MetabaseError"
                                    /\ lgroups' = sel
                                    /\ UNCHANGED <<chunked, offset, last_iter>>
                                    /\ UNCHANGED <<helpervars, session_groups, calls, holds>>
                               ELSE /\ lgroups' = lg /\ chunked' = ch
                                    /\ offset' = c.offset /\ last_iter' = FALSE
                                    /\ desired_groups' = lg /\ upload_groups' = <<>>
                                    /\ ret' = <<>>
                                    /\ session_groups' = lg /\ calls' = <<c>>
                                    /\ holds' = {}
                                    /\ pc' = "wait_body" /\ outcome' = "none"
    /\ UNCHANGED <<cfgvars, othervars>>

\* what the storage answers to a remove
RemoveReplies == {"ok", "error"}

\* the failure of the remove is raised in write_impl
RemoveRaises_failed(reply) == reply = "error"

\* lines 689, 695: the result object of the remove is dropped without wait()
\* or get(), so write_impl never sees whether the remove failed
RemoveRaises(reply) == FALSE

\* lines 685-716 up to the metadata write: acceptance, compensation
Finish(cs, ug, rt, hl) ==
    IF ~helper_upload_is_good(success_copies_num, replication_count, ug)
      THEN LET rg == RejectRemoveGroups(lgroups, ug) IN
           \E rr \in RemoveReplies :
           /\ session_groups' = rg
           /\ calls' = Append(cs, Call("remove", rg, 0, 0, 0, rr))
           /\ holds' = IF rr = "ok" THEN hl \ Range(rg) ELSE hl
           /\ upload_groups' = ug /\ ret' = rt
           /\ UNCHANGED desired_groups
           /\ pc' = "failed"
           /\ outcome' = IF RemoveRaises(rr) THEN "SessionError" ELSE "WriteRejected"
           /\ UNCHANGED session_cflags
    ELSE IF NeedCompensation(chunked, desired_groups, ug)
      THEN LET ig == get_incomplete_groups(desired_groups, ug) IN
           \E rr \in RemoveReplies :
           /\ session_groups' = ig
           /\ desired_groups' = sort(desired_groups)
           /\ upload_groups' = sort(ug) /\ ret' = rt
           /\ holds' = IF rr = "ok" THEN hl \ Range(ig) ELSE hl
           /\ IF RemoveRaises(rr)
                THEN /\ calls' = Append(cs, Call("remove", ig, 0, 0, 0, rr))
                     /\ pc' = "failed" /\ outcome' = "SessionError"
                     /\ UNCHANGED session_cflags
                ELSE /\ session_cflags' = {}
                     /\ calls' = cs \o <<Call("remove", ig, 0, 0, 0, rr),
                                         Call("write_metadata",
                                              MetadataGroups(sort(desired_groups), sort(ug)),
                                              0, 0, 0, "pending")>>
                     /\ pc' = "wait_meta" /\ outcome' = "none"
    ELSE   /\ UNCHANGED <<session_groups, desired_groups>>
           /\ upload_groups' = ug /\ ret' = rt
           /\ calls' = Append(cs, Call("write_metadata", MetadataGroups(desired_groups, ug),
                                       0, 0, 0, "pending"))
           /\ holds' = hl /\ session_cflags' = {}
           /\ pc' = "wait_meta" /\ outcome' = "none"

\* lines 656-683: the reply of a body call and what write_impl does with it
BodyReply ==
    /\ pc = "wait_body"
    /\ \E ok \in Replies(session_groups) :
        LET cs == Answered(calls, "ok", ok)
            hl == holds \cup Range(ok)
            rt == update_lookup(ret, ok, (~chunked) \/ last_iter)
            good == helper_upload_is_good(success_copies_num, replication_count, ok)
            S == a_content_size
            more == /\ chunked
                    /\ IF LastCall.op = "write_prepare" THEN good
                       ELSE LoopContinues(good, offset, m_chunk_size, S)
        IN  IF more
              THEN LET ng == NextChunkGroups(desired_groups, ok)
                       no == offset + m_chunk_size
                       last == IsLastChunk(no, m_chunk_size, S)
                       c == IF last
                              THEN Call("write_commit", ng, no, slice(S, no, S - no), S, "pending")
                              ELSE Call("write_plain", ng, no, slice(S, no, m_chunk_size), 0, "pending")
                   IN  /\ session_groups' = ng /\ offset' = no /\ last_iter' = last
                       /\ upload_groups' = ok /\ ret' = rt
                       /\ calls' = Append(cs, c) /\ holds' = hl
                       /\ UNCHANGED <<desired_groups, pc, outcome, session_cflags>>
              ELSE /\ Finish(cs, ok, rt, hl)
                   /\ UNCHANGED <<offset, last_iter>>
    /\ UNCHANGED <<cfgvars, argvars, replication_count, success_copies_num, lgroups, chunked, othervars>>

\* .get() of a body call raises (no group accepted the call): lines 699-708
BodyThrow ==
    /\ pc = "wait_body"
    /\ calls' = Answered(calls, "throw", <<>>)
    /\ pc' = "failed" /\ outcome' = "SessionError"
    /\ UNCHANGED <<cfgvars, argvars, locvars, helpervars, session_groups, holds,
                   session_cflags, othervars>>

\* lines 714-730: the metadata write returns, write_impl returns helper.get_result()
MetaReply ==
    /\ pc = "wait_meta"
    /\ calls' = Answered(calls, "ok", <<>>)
    /\ pc' = "returned" /\ outcome' = "ok"
    /\ session_cflags' = RestoredCflags(a_cflags, a_ioflags)
    /\ UNCHANGED <<cfgvars, argvars, locvars, helpervars, session_groups, holds, othervars>>

\* the exception of the metadata write is swallowed and the result returned
MetaThrow_swallowed ==
    /\ pc = "wait_meta"
    /\ calls' = Answered(calls, "throw", <<>>)
    /\ pc' = "returned" /\ outcome' = "ok"
    /\ UNCHANGED <<cfgvars, argvars, locvars, helpervars, session_groups, holds,
                   session_cflags, othervars>>

\* lines 714, 717-728: the metadata write raises, write_impl rethrows
MetaThrow ==
    /\ pc = "wait_meta"
    /\ calls' = Answered(calls, "throw", <<>>)
    /\ pc' = "failed" /\ outcome' = "MetadataError"
    /\ UNCHANGED <<cfgvars, argvars, locvars, helpervars, session_groups, holds,
                   session_cflags, othervars>>

\* the write is followed by the metadata write of write_impl
AsyncCalls_finalized(c, lg) == <<c, Call("write_metadata", lg, 0, 0, 0, "pending")>>

\* lines 1117-1125: the session calls of write_async_impl, one write whose
\* result object is returned as it is
AsyncCalls(c, lg) == <<c>>

\* lines 1072-1140: write_async_impl; the pre-checks and the target list of
\* write_impl, then one session write whose result is handed to the caller
WriteAsync ==
    /\ pc = "idle"
    /\ \E a \in WriteArgs, state_num \in 0..1 :
        LET rc == resolve_replication_count(a.groups)
        IN  /\ a_by_id' = a.by_id /\ a_content_size' = a.S /\ a_offset' = a.off
            /\ a_size' = 0 /\ a_ioflags' = a.ioflags /\ a_groups' = a.groups
            /\ a_state_num' = state_num
            /\ a_cflags' = a.cflags /\ a_success_copies_num' = a.scn
            /\ session_cflags' = a.cflags
            /\ UNCHANGED <<chunked, offset, last_iter, helpervars, holds>>
            /\ IF TooFewStates(state_num, m_die_limit)
                 THEN /\ pc' = "failed" /\ outcome' = "TooFewStates"
                      /\ UNCHANGED <<replication_count, success_copies_num, lgroups,
                                     session_groups, calls>>
               ELSE IF get_groups(a.groups, 0) = {}
                 THEN /\ pc' = "failed" /\ outcome' = "NoGroups"
                      /\ replication_count' = rc /\ success_copies_num' = a.scn
                      /\ UNCHANGED <<lgroups, session_groups, calls>>
               ELSE \E sel \in get_groups(a.groups, 0) :
                    \E t \in MetabaseTargets(sel, a.groups, rc) :
                      LET lg == TruncateToR(t.lg, rc)
                      IN  /\ replication_count' = rc /\ success_copies_num' = a.scn
                          /\ IF t.failed
                               THEN /\ pc' = "failed" /\ outcome' = "MetabaseError"
                                    /\ lgroups' = sel
                                    /\ UNCHANGED <<session_groups, calls>>
                               ELSE /\ lgroups' = lg /\ session_groups' = lg
                                    /\ calls' = AsyncCalls(FirstCall(a.ioflags, FALSE, a.S,
                                                                     a.off, 0, lg), lg)
                                    /\ pc' = "returned_async" /\ outcome' = "async"
    /\ UNCHANGED <<cfgvars, othervars>>

\* the caller has the result or the exception; the next call may start
WriteEnd ==
    /\ pc \in {"returned", "failed", "returned_async"}
    /\ pc' = "idle" /\ outcome' = "none"
    /\ a_by_id' = FALSE /\ a_content_size' = 0 /\ a_offset' = 0 /\ a_size' = 0
    /\ a_ioflags' = {} /\ a_groups' = <<>> /\ a_state_num' = 0
    /\ a_cflags' = {} /\ a_success_copies_num' = 0 /\ session_cflags' = {}
    /\ replication_count' = 0 /\ success_copies_num' = 0 /\ lgroups' = <<>>
    /\ chunked' = FALSE /\ offset' = 0 /\ last_iter' = FALSE
    /\ desired_groups' = <<>> /\ upload_groups' = <<>> /\ ret' = <<>>
    /\ session_groups' = <<>> /\ calls' = <<>> /\ holds' = {}
    /\ UNCHANGED <<cfgvars, othervars>>

\* ------------------------------------------------------------- construction
\* lines 451, 462-464
ctor_replication_count(c_rc, groups) == IF c_rc = 0 THEN Len(groups) ELSE c_rc

\* lines 449, 465-467
ctor_success_copies_num(c_scn) ==
    IF c_scn = 0 THEN SUCCESS_COPIES_TYPE__QUORUM ELSE c_scn

\* the usage mode is taken from the configuration
ctor_metabase_usage_configured == PROXY_META_NORMAL

\* line 456
ctor_metabase_usage == PROXY_META_NONE

DefaultLists == {<<>>, <<2, 1>>, <<3, 1, 2>>}

\* lines 445-467
Init ==
    /\ m_groups \in DefaultLists
    /\ c_replication_count \in {0, 2}
    /\ c_success_copies_num \in {0, SUCCESS_COPIES_TYPE__ALL}
    /\ m_replication_count = ctor_replication_count(c_replication_count, m_groups)
    /\ m_success_copies_num = ctor_success_copies_num(c_success_copies_num)
    /\ m_metabase_usage = ctor_metabase_usage /\ c_groups = m_groups
    /\ m_die_limit = 1
    /\ m_chunk_size \in 0..MaxChunk
    /\ pc = "idle" /\ outcome = "none"
    /\ IdleLocals
    /\ q_mode = 0 /\ q_R = 0 /\ q_s = 0 /\ q_res = "none"
    /\ IdleG /\ IdleL /\ IdleLater

Next == WriteBegin \/ BodyReply \/ BodyThrow \/ MetaReply \/ MetaThrow \/ WriteAsync \/ WriteEnd

Spec == Init /\ [][Next]_vars

\* ------------------------------------------------- quorum predicate evaluation
QuorumModes ==
    {SUCCESS_COPIES_TYPE__ANY, SUCCESS_COPIES_TYPE__QUORUM, SUCCESS_COPIES_TYPE__ALL}
        \cup 1..MaxR

InitQ ==
    /\ m_groups = <<>> /\ m_replication_count = 0
    /\ m_success_copies_num = SUCCESS_COPIES_TYPE__QUORUM
    /\ c_replication_count = 0 /\ c_success_copies_num = 0
    /\ m_metabase_usage = ctor_metabase_usage /\ c_groups = m_groups
    /\ m_die_limit = 1 /\ m_chunk_size = 0
    /\ pc = "idle" /\ outcome = "none"
    /\ IdleLocals
    /\ q_mode \in QuorumModes /\ q_R \in 1..MaxR /\ q_s \in 0..q_R /\ q_res = "none"
    /\ IdleG /\ IdleL /\ IdleLater

\* write_helper_t::upload_is_good() of a helper holding q_s upload groups
QEval ==
    /\ q_res = "none"
    /\ q_res' = IF helper_upload_is_good(q_mode, q_R, [i \in 1..q_s |-> i])
                  THEN "good" ELSE "bad"
    /\ UNCHANGED <<cfgvars, writevars, q_mode, q_R, q_s, gvars, lvars, latervars>>

NextQ == QEval

SpecQ == InitQ /\ [][NextQ]_vars

\* ------------------------------------------------- get_groups, remove_async
\* lines 383-384, 1227-1251: a call of get_groups(key, groups, count)
GetGroups ==
    /\ \E groups \in GroupLists, count \in 0..MaxCount :
        /\ g_op' = "get_groups" /\ g_groups' = groups /\ g_count' = count
        /\ g_calls' = <<>> /\ g_addrs' = <<>>
        /\ IF get_groups(groups, count) = {}
             THEN g_threw' = TRUE /\ g_res' = <<>> /\ UNCHANGED m_groups
             ELSE /\ g_threw' = FALSE
                  /\ \E r \in get_groups(groups, count) :
                        g_res' = r /\ m_groups' = m_groups_after(groups, r)
    /\ UNCHANGED <<cfgrest, writevars, qvars, lvars, latervars>>

\* lines 1142-1164: remove_async_impl; the groups of get_groups, one session
\* remove whose result is handed to the caller
RemoveAsync ==
    /\ \E groups \in GroupLists :
        /\ g_op' = "remove_async" /\ g_groups' = groups /\ g_count' = 0
        /\ g_addrs' = <<>>
        /\ IF get_groups(groups, 0) = {}
             THEN g_threw' = TRUE /\ g_res' = <<>> /\ g_calls' = <<>>
             ELSE /\ g_threw' = FALSE
                  /\ \E r \in get_groups(groups, 0) :
                        /\ g_res' = r
                        /\ g_calls' = <<Call("remove", r, 0, 0, 0, "pending")>>
    /\ UNCHANGED <<cfgvars, writevars, qvars, lvars, latervars>>

\* the string session.lookup_address gives for a group: host, ':', port
lookup_address(g) == <<"host", ToString(g), ":", "1025">>

\* boost::lexical_cast<int> of the port text
lexical_cast(text) == CASE text = <<"1025">> -> 1025 [] OTHER -> 0

\* lines 900-901: the remote made of the text before the first ':' and of the
\* number after it
remote_of(str) ==
    LET pos == CHOOSE i \in 1..Len(str) : str[i] = ":" /\ \A j \in 1..i-1 : str[j] # ":"
    IN  [host |-> SubSeq(str, 1, pos - 1),
         port |-> lexical_cast(SubSeq(str, pos + 1, Len(str)))]

\* lines 880-907: lookup_addr_impl; lgroups is computed by get_groups, the
\* loop runs over the argument groups
LookupAddr ==
    /\ \E groups \in GroupLists :
        /\ g_op' = "lookup_addr" /\ g_groups' = groups /\ g_count' = 0
        /\ IF get_groups(groups, 0) = {}
             THEN g_threw' = TRUE /\ g_res' = <<>> /\ g_calls' = <<>> /\ g_addrs' = <<>>
             ELSE /\ g_threw' = FALSE
                  /\ \E lg \in get_groups(groups, 0) : g_res' = lg
                  /\ g_calls' = [i \in 1..Len(groups) |->
                                   Call("lookup_address", <<groups[i]>>, 0, 0, 0, "ok")]
                  /\ g_addrs' = [i \in 1..Len(groups) |->
                                   remote_of(lookup_address(groups[i]))]
    /\ UNCHANGED <<cfgvars, writevars, qvars, lvars, latervars>>

\* the proxy objects the selector is exercised on
InitG ==
    /\ m_groups \in GroupLists \cup DefaultLists
    /\ m_replication_count = Len(m_groups)
    /\ m_success_copies_num = SUCCESS_COPIES_TYPE__QUORUM
    /\ c_replication_count = 0 /\ c_success_copies_num = 0
    /\ m_metabase_usage = ctor_metabase_usage /\ c_groups = m_groups
    /\ m_die_limit = 1 /\ m_chunk_size = 0
    /\ pc = "idle" /\ outcome = "none"
    /\ IdleLocals
    /\ q_mode = 0 /\ q_R = 0 /\ q_s = 0 /\ q_res = "none"
    /\ IdleG /\ IdleL /\ IdleLater

NextG == GetGroups \/ RemoveAsync \/ LookupAddr

SpecG == InitG /\ [][NextG]_vars

\* ------------------------------------------- bulk_write, bulk_read, range_get
\* key_t::transform: the raw id of a name key
transform(k) == 10 + k

\* the key lists of a batch: distinct keys of 1..MaxKey in any order
KeyLists ==
    {<<>>} \cup {<<k>> : k \in 1..MaxKey}
           \cup {p \in (1..MaxKey) \X (1..MaxKey) : p[1] # p[2]}

\* every id is filed under the first key of the batch
keys_transformed_first(keys) ==
    [id \in {transform(k) : k \in Range(keys)} |-> keys[1]]

\* lines 924, 951 (830, 852): the side table raw id -> key of the batch
keys_transformed(keys) ==
    [id \in {transform(k) : k \in Range(keys)} |->
        CHOOSE k \in Range(keys) : transform(k) = id]

\* a call on the session of a bulk or range operation
BCall(op, key, groups) == [op |-> op, key |-> key, groups |-> groups]

\* answers of the session to a bulk write: for every key of the batch the
\* groups (of those set on the session) that stored it
BulkWriteAnswers(keys, lg) == [Range(keys) -> Replies(lg)]

RECURSIVE BulkEntries(_, _)
\* the entries of the answer, one per key and group that stored it
BulkEntries(keys, ans) ==
    IF keys = <<>> THEN <<>>
    ELSE [i \in 1..Len(ans[Head(keys)]) |->
            [id |-> transform(Head(keys)), group |-> ans[Head(keys)][i]]]
         \o BulkEntries(Tail(keys), ans)

\* lines 955-963: res_groups, the groups of the entries filed under each key
res_groups(keys, entries) ==
    LET kt == keys_transformed(keys)
        ks == {kt[entries[i].id] : i \in 1..Len(entries)}
    IN  [k \in ks |->
            LET mine == SelectSeq(entries, LAMBDA e : kt[e.id] = k)
            IN  [i \in 1..Len(mine) |-> mine[i].group]]

\* the removes are issued against the groups set for the bulk write
BulkRemoveGroups_all(lg, rg) == lg

\* line 978: the groups of the compensation remove of one key
BulkRemoveGroups(lg, rg) == rg

RECURSIVE BulkRemoves(_, _, _)
\* lines 977-980: one remove per key of res_groups, in key order
BulkRemoves(ks, rg, lg) ==
    IF ks = {} THEN <<>>
    ELSE LET k == CHOOSE x \in ks : \A y \in ks : x <= y
         IN  <<BCall("remove", k, BulkRemoveGroups(lg, rg[k]))>>
             \o BulkRemoves(ks \ {k}, rg, lg)

\* lines 909-1000: bulk_write_impl
BulkWrite ==
    /\ b_op = "none"
    /\ \E keys \in KeyLists, groups \in GroupLists, scn \in SuccessModes,
          extra \in 0..1 :
        LET rc == resolve_replication_count(groups)
            ndata == Len(keys) + extra
        IN  /\ b_op' = "bulk_write" /\ b_keys' = keys /\ b_ndata' = ndata
            /\ b_groups' = groups /\ b_scn' = scn /\ b_ioflags' = {}
            /\ IF Len(keys) = 0
                 THEN /\ b_outcome' = "ok" /\ b_res' = <<>> /\ b_rc' = 0
                      /\ b_lgroups' = <<>> /\ b_resp' = <<>> /\ b_calls' = <<>>
               ELSE IF get_groups(groups, 0) = {}
                 THEN /\ b_outcome' = "NoGroups" /\ b_res' = <<>> /\ b_rc' = rc
                      /\ b_lgroups' = <<>> /\ b_resp' = <<>> /\ b_calls' = <<>>
               ELSE \E lg \in get_groups(groups, 0) :
                      /\ b_rc' = rc /\ b_lgroups' = lg
                      /\ IF Len(keys) # ndata
                           THEN /\ b_outcome' = "CountMismatch" /\ b_res' = <<>>
                                /\ b_resp' = <<>> /\ b_calls' = <<>>
                           ELSE \/ /\ b_outcome' = "SessionError" /\ b_res' = <<>>
                                   /\ b_resp' = <<>>
                                   /\ b_calls' = <<BCall("bulk_write", 0, lg)>>
                                \/ \E ans \in BulkWriteAnswers(keys, lg) :
                                     LET entries == BulkEntries(keys, ans)
                                         rg == res_groups(keys, entries)
                                         need == uploads_need(
                                                    resolve_success_copies_num(scn), rc)
                                     IN  /\ b_resp' = entries
                                         /\ IF \E k \in DOMAIN rg : Len(rg[k]) < need
                                              THEN /\ b_outcome' = "BulkWriteRejected"
                                                   /\ b_res' = <<>>
                                                   /\ b_calls' =
                                                        <<BCall("bulk_write", 0, lg)>>
                                                        \o BulkRemoves(DOMAIN rg, rg, lg)
                                              ELSE /\ b_outcome' = "ok"
                                                   /\ b_res' = rg
                                                   /\ b_calls' =
                                                        <<BCall("bulk_write", 0, lg)>>
    /\ UNCHANGED <<cfgvars, writevars, qvars, gvars, lvars, concvars>>

\* answers of the session to a bulk read: entries for some of the requested
\* ids, in any order
BulkReadAnswers(keys) ==
    UNION {{q \in [1..Cardinality(S) -> S] : Range(q) = S} :
              S \in SUBSET {transform(k) : k \in Range(keys)}}

\* lines 820-878: bulk_read_impl
BulkRead ==
    /\ b_op = "none"
    /\ \E keys \in KeyLists, groups \in GroupLists :
        /\ b_op' = "bulk_read" /\ b_keys' = keys /\ b_ndata' = 0
        /\ b_groups' = groups /\ b_scn' = 0 /\ b_ioflags' = {} /\ b_rc' = 0
        /\ IF Len(keys) = 0
             THEN /\ b_outcome' = "ok" /\ b_res' = <<>>
                  /\ b_lgroups' = <<>> /\ b_resp' = <<>> /\ b_calls' = <<>>
           ELSE IF get_groups(groups, 0) = {}
             THEN /\ b_outcome' = "NoGroups" /\ b_res' = <<>>
                  /\ b_lgroups' = <<>> /\ b_resp' = <<>> /\ b_calls' = <<>>
           ELSE \E lg \in get_groups(groups, 0) :
                  /\ b_lgroups' = lg
                  /\ b_calls' = <<BCall("bulk_read", 0, lg)>>
                  /\ \/ /\ b_outcome' = "SessionError" /\ b_res' = <<>>
                        /\ b_resp' = <<>>
                     \/ \E ans \in BulkReadAnswers(keys) :
                          LET kt == keys_transformed(keys)
                          IN  /\ b_resp' = ans
                              /\ b_outcome' = "ok"
                              /\ b_res' = [k \in {kt[ans[i]] : i \in 1..Len(ans)} |->
                                              ans[CHOOSE i \in 1..Len(ans) :
                                                    /\ kt[ans[i]] = k
                                                    /\ \A j \in 1..i-1 : kt[ans[j]] # k]]
    /\ UNCHANGED <<cfgvars, writevars, qvars, gvars, lvars, concvars>>

\* the entries a group can answer a range read with, one per record
RangeEntries == [data : {"a", "b"}, num : {1}]

\* the answer of one group to read_data_range(...).get(): it raises, or it
\* gives up to MaxRecords entries
RangeAnswers ==
    {[thrown |-> TRUE, entries |-> <<>>]}
    \cup [thrown : {FALSE},
          entries : UNION {[1..n -> RangeEntries] : n \in 0..MaxRecords}]

RECURSIVE NumSum(_)
NumSum(es) == IF es = <<>> THEN 0 ELSE Head(es).num + NumSum(Tail(es))

\* lines 769-782: what the answer of one group adds to ret
GroupRet(a, ioflags) ==
    IF a.thrown THEN <<>>
    ELSE IF DNET_IO_FLAGS_NODATA \in ioflags
        THEN [i \in 1..Len(a.entries) |-> a.entries[i].data] \o <<ToString(0)>>
        ELSE <<>>

RECURSIVE RangeRuns(_, _)
\* lines 765-788: the answers the loop over n more groups can consume; it
\* stops at the first group that leaves ret non-empty
RangeRuns(n, ioflags) ==
    IF n = 0 THEN {<<>>}
    ELSE UNION {IF GroupRet(a, ioflags) # <<>> THEN {<<a>>}
                ELSE {<<a>> \o r : r \in RangeRuns(n - 1, ioflags)} :
                a \in RangeAnswers}

\* lines 733-813: range_get_impl
RangeGet ==
    /\ b_op = "none"
    /\ \E groups \in GroupLists, ioflags \in SUBSET {DNET_IO_FLAGS_NODATA} :
        /\ b_op' = "range_get" /\ b_keys' = <<>> /\ b_ndata' = 0
        /\ b_groups' = groups /\ b_scn' = 0 /\ b_ioflags' = ioflags /\ b_rc' = 0
        /\ IF get_groups(groups, 0) = {}
             THEN /\ b_outcome' = "NoGroups" /\ b_res' = <<>>
                  /\ b_lgroups' = <<>> /\ b_resp' = <<>> /\ b_calls' = <<>>
           ELSE \E lg \in get_groups(groups, 0) :
                  \E run \in RangeRuns(Len(lg), ioflags) :
                    LET rr == GroupRet(run[Len(run)], ioflags)
                    IN  /\ b_lgroups' = lg /\ b_resp' = run
                        /\ b_calls' = [i \in 1..Len(run) |->
                                          BCall("read_data_range", 0, <<lg[i]>>)]
                        /\ b_res' = rr
                        /\ b_outcome' = IF rr = <<>> THEN "RangeFailed" ELSE "ok"
    /\ UNCHANGED <<cfgvars, writevars, qvars, gvars, lvars, concvars>>

\* the caller has the result or the exception; the next call may start
BulkEnd ==
    /\ b_op # "none"
    /\ b_op' = "none" /\ b_keys' = <<>> /\ b_ndata' = 0 /\ b_groups' = <<>> /\ b_scn' = 0
    /\ b_ioflags' = {} /\ b_rc' = 0 /\ b_lgroups' = <<>> /\ b_resp' = <<>>
    /\ b_calls' = <<>> /\ b_outcome' = "none" /\ b_res' = <<>>
    /\ UNCHANGED <<cfgvars, writevars, qvars, gvars, lvars, concvars>>

InitB ==
    /\ m_groups \in DefaultLists
    /\ c_replication_count \in {0, 2}
    /\ c_success_copies_num \in {0, SUCCESS_COPIES_TYPE__ALL}
    /\ m_replication_count = ctor_replication_count(c_replication_count, m_groups)
    /\ m_success_copies_num = ctor_success_copies_num(c_success_copies_num)
    /\ m_metabase_usage = ctor_metabase_usage /\ c_groups = m_groups
    /\ m_die_limit = 1 /\ m_chunk_size = 0
    /\ pc = "idle" /\ outcome = "none"
    /\ IdleLocals
    /\ q_mode = 0 /\ q_R = 0 /\ q_s = 0 /\ q_res = "none"
    /\ IdleG /\ IdleL /\ IdleLater

NextB == BulkWrite \/ BulkRead \/ RangeGet \/ BulkEnd

SpecB == InitB /\ [][NextB]_vars

\* ---------------------------------------------- weighted cache refresh worker
\* line 1291 and the send at 1296: the stamped request goes out
Request(by, stamp) ==
    [by |-> by, stamp |-> stamp, done |-> m_done, after |-> w_cause]

\* lines 1311, 1321: the thread starts running, takes m_mutex, enters the loop
WorkerStart ==
    /\ w_pc = "start" /\ m_mutex = "none"
    /\ m_mutex' = "worker" /\ w_pc' = "refresh"
    /\ UNCHANGED <<m_cocaine_dealer, m_done, m_metabase_current_stamp,
                   m_weight_cache_initialized, cv_notified, w_tm, w_stamp, w_cause,
                   d_pc, c_pc, c_stamp, requests>>
    /\ UNCHANGED <<cfgvars, writevars, qvars, gvars, lvars, bvars, tvars>>

\* line 1291: the read of ++m_metabase_current_stamp
WorkerRead ==
    /\ w_pc = "refresh"
    /\ w_stamp' = m_metabase_current_stamp /\ w_pc' = "incr"
    /\ UNCHANGED <<m_cocaine_dealer, m_done, m_metabase_current_stamp, m_mutex,
                   m_weight_cache_initialized, cv_notified, w_tm, w_cause,
                   d_pc, c_pc, c_stamp, requests>>
    /\ UNCHANGED <<cfgvars, writevars, qvars, gvars, lvars, bvars, tvars>>

\* lines 1291-1296: the write of ++m_metabase_current_stamp, send_message
WorkerSend ==
    /\ w_pc = "incr"
    /\ m_metabase_current_stamp' = w_stamp + 1
    /\ requests' = Append(requests, Request("worker", w_stamp + 1))
    /\ w_pc' = "rpc"
    /\ UNCHANGED <<m_cocaine_dealer, m_done, m_mutex, m_weight_cache_initialized,
                   cv_notified, w_tm, w_stamp, w_cause, d_pc, c_pc, c_stamp>>
    /\ UNCHANGED <<cfgvars, writevars, qvars, gvars, lvars, bvars, tvars>>

\* lines 1298-1306, 1325-1345: the RPC returns (or raises, which is logged),
\* tm = timeout, then the wait loop is entered or skipped
WorkerReply ==
    /\ w_pc = "rpc"
    /\ \E upd \in BOOLEAN :
         m_weight_cache_initialized' = (m_weight_cache_initialized \/ upd)
    /\ w_tm' = "timeout"
    /\ IF m_done = FALSE
         THEN w_pc' = "waiting" /\ m_mutex' = "none"
         ELSE w_pc' = "exited" /\ m_mutex' = "none"
    /\ UNCHANGED <<m_cocaine_dealer, m_done, m_metabase_current_stamp, cv_notified,
                   w_stamp, w_cause, d_pc, c_pc, c_stamp, requests>>
    /\ UNCHANGED <<cfgvars, writevars, qvars, gvars, lvars, bvars, tvars>>

\* line 1344: wait_for ends: the period elapsed, the condition was notified,
\* or the wake-up is spurious
WorkerWake ==
    /\ w_pc = "waiting"
    /\ \E cause \in {"timeout", "spurious"} \cup (IF cv_notified THEN {"notify"} ELSE {}) :
         /\ w_cause' = cause
         /\ w_tm' = IF cause = "timeout" THEN "timeout" ELSE "no_timeout"
    /\ cv_notified' = FALSE
    /\ w_pc' = "woken"
    /\ UNCHANGED <<m_cocaine_dealer, m_done, m_metabase_current_stamp, m_mutex,
                   m_weight_cache_initialized, w_stamp, d_pc, c_pc, c_stamp, requests>>
    /\ UNCHANGED <<cfgvars, writevars, qvars, gvars, lvars, bvars, tvars>>

\* lines 1343-1347: wait_for has m_mutex again; m_done is tested, then tm
WorkerResume ==
    /\ w_pc = "woken" /\ m_mutex = "none"
    /\ IF m_done = FALSE
         THEN w_pc' = "waiting" /\ m_mutex' = "none"
       ELSE IF w_tm = "no_timeout"
         THEN w_pc' = "refresh" /\ m_mutex' = "worker"
       ELSE w_pc' = "exited" /\ m_mutex' = "none"
    /\ UNCHANGED <<m_cocaine_dealer, m_done, m_metabase_current_stamp,
                   m_weight_cache_initialized, cv_notified, w_tm, w_stamp, w_cause,
                   d_pc, c_pc, c_stamp, requests>>
    /\ UNCHANGED <<cfgvars, writevars, qvars, gvars, lvars, bvars, tvars>>

\* line 503: the proxy is destroyed
DtorBegin ==
    /\ d_pc = "alive" /\ c_pc = "idle"
    /\ d_pc' = "lock"
    /\ UNCHANGED <<m_cocaine_dealer, m_done, m_metabase_current_stamp, m_mutex,
                   m_weight_cache_initialized, cv_notified, w_pc, w_tm, w_stamp,
                   w_cause, c_pc, c_stamp, requests>>
    /\ UNCHANGED <<cfgvars, writevars, qvars, gvars, lvars, bvars, tvars>>

\* the flag is not set, the condition is only notified
DtorSignal_noflag ==
    /\ d_pc = "lock" /\ m_mutex = "none"
    /\ cv_notified' = (w_pc = "waiting")
    /\ d_pc' = "join"
    /\ UNCHANGED <<m_cocaine_dealer, m_done, m_metabase_current_stamp, m_mutex,
                   m_weight_cache_initialized, w_pc, w_tm, w_stamp, w_cause,
                   c_pc, c_stamp, requests>>
    /\ UNCHANGED <<cfgvars, writevars, qvars, gvars, lvars, bvars, tvars>>

\* lines 506-511: under m_mutex, m_done = true and notify_one
DtorSignal ==
    /\ d_pc = "lock" /\ m_mutex = "none"
    /\ m_done' = TRUE
    /\ cv_notified' = (w_pc = "waiting")
    /\ d_pc' = "join"
    /\ UNCHANGED <<m_cocaine_dealer, m_metabase_current_stamp, m_mutex,
                   m_weight_cache_initialized, w_pc, w_tm, w_stamp, w_cause,
                   c_pc, c_stamp, requests>>
    /\ UNCHANGED <<cfgvars, writevars, qvars, gvars, lvars, bvars, tvars>>

\* lines 512-515: join returns once the thread has ended; without a thread
\* it raises std::system_error, which is caught
DtorJoin ==
    /\ d_pc = "join" /\ w_pc \in {"exited", "none"}
    /\ d_pc' = "done"
    /\ UNCHANGED <<m_cocaine_dealer, m_done, m_metabase_current_stamp, m_mutex,
                   m_weight_cache_initialized, cv_notified, w_pc, w_tm, w_stamp,
                   w_cause, c_pc, c_stamp, requests>>
    /\ UNCHANGED <<cfgvars, writevars, qvars, gvars, lvars, bvars, tvars>>

\* lines 389-390, 1350-1356, 1284-1286: a caller enters
\* get_metabalancer_groups_impl; the cache serves it, the refresh raises for
\* want of a dealer, or a synchronous refresh begins
CallerBegin ==
    /\ c_pc = "idle" /\ d_pc = "alive"
    /\ Len(SelectSeq(requests, LAMBDA r : r.by = "caller")) < MaxRequests
    /\ c_pc' = IF m_weight_cache_initialized \/ ~m_cocaine_dealer
                 THEN "returned" ELSE "refresh"
    /\ UNCHANGED <<m_cocaine_dealer, m_done, m_metabase_current_stamp, m_mutex,
                   m_weight_cache_initialized, cv_notified, w_pc, w_tm, w_stamp,
                   w_cause, d_pc, c_stamp, requests>>
    /\ UNCHANGED <<cfgvars, writevars, qvars, gvars, lvars, bvars, tvars>>

\* line 1291: the read of ++m_metabase_current_stamp
CallerRead ==
    /\ c_pc = "refresh"
    /\ c_stamp' = m_metabase_current_stamp /\ c_pc' = "incr"
    /\ UNCHANGED <<m_cocaine_dealer, m_done, m_metabase_current_stamp, m_mutex,
                   m_weight_cache_initialized, cv_notified, w_pc, w_tm, w_stamp,
                   w_cause, d_pc, requests>>
    /\ UNCHANGED <<cfgvars, writevars, qvars, gvars, lvars, bvars, tvars>>

\* lines 1291-1296: the write of ++m_metabase_current_stamp, send_message
CallerSend ==
    /\ c_pc = "incr"
    /\ m_metabase_current_stamp' = c_stamp + 1
    /\ requests' = Append(requests, Request("caller", c_stamp + 1))
    /\ c_pc' = "rpc"
    /\ UNCHANGED <<m_cocaine_dealer, m_done, m_mutex, m_weight_cache_initialized,
                   cv_notified, w_pc, w_tm, w_stamp, w_cause, d_pc, c_stamp>>
    /\ UNCHANGED <<cfgvars, writevars, qvars, gvars, lvars, bvars, tvars>>

\* lines 1298-1306, 1353-1392: the RPC returns or raises; the call ends
CallerReply ==
    /\ c_pc = "rpc"
    /\ \E upd \in BOOLEAN :
         m_weight_cache_initialized' = (m_weight_cache_initialized \/ upd)
    /\ c_pc' = "returned"
    /\ UNCHANGED <<m_cocaine_dealer, m_done, m_metabase_current_stamp, m_mutex,
                   cv_notified, w_pc, w_tm, w_stamp, w_cause, d_pc, c_stamp, requests>>
    /\ UNCHANGED <<cfgvars, writevars, qvars, gvars, lvars, bvars, tvars>>

\* the caller has the groups or the exception; the next call may start
CallerEnd ==
    /\ c_pc = "returned"
    /\ c_pc' = "idle" /\ c_stamp' = 0
    /\ UNCHANGED <<m_cocaine_dealer, m_done, m_metabase_current_stamp, m_mutex,
                   m_weight_cache_initialized, cv_notified, w_pc, w_tm, w_stamp,
                   w_cause, d_pc, requests>>
    /\ UNCHANGED <<cfgvars, writevars, qvars, gvars, lvars, bvars, tvars>>

\* lines 445-501: the constructed proxy; the thread exists iff a dealer was
\* created; m_metabase_current_stamp has no initializer
InitW ==
    /\ m_groups \in DefaultLists
    /\ m_replication_count = Len(m_groups)
    /\ m_success_copies_num = SUCCESS_COPIES_TYPE__QUORUM
    /\ c_replication_count = 0 /\ c_success_copies_num = 0
    /\ m_metabase_usage = ctor_metabase_usage /\ c_groups = m_groups
    /\ m_die_limit = 1 /\ m_chunk_size = 0
    /\ pc = "idle" /\ outcome = "none"
    /\ IdleLocals
    /\ q_mode = 0 /\ q_R = 0 /\ q_s = 0 /\ q_res = "none"
    /\ IdleG /\ IdleL /\ IdleB /\ IdleT
    /\ m_cocaine_dealer \in BOOLEAN
    /\ m_done = FALSE /\ m_metabase_current_stamp \in 0..MaxStamp
    /\ m_mutex = "none" /\ m_weight_cache_initialized = FALSE /\ cv_notified = FALSE
    /\ w_pc = IF m_cocaine_dealer THEN "start" ELSE "none"
    /\ w_tm = "timeout" /\ w_stamp = 0 /\ w_cause = "start"
    /\ d_pc = "alive" /\ c_pc = "idle" /\ c_stamp = 0 /\ requests = <<>>

WorkerNext ==
    WorkerStart \/ WorkerRead \/ WorkerSend \/ WorkerReply \/ WorkerWake \/ WorkerResume

CallerNext == CallerBegin \/ CallerRead \/ CallerSend \/ CallerReply \/ CallerEnd

NextW == WorkerNext \/ DtorBegin \/ DtorSignal \/ DtorJoin \/ CallerNext

SpecW == InitW /\ [][NextW]_vars

\* the threads are scheduled, every RPC returns, a begun destruction goes on;
\* whether the proxy is destroyed and whether callers come is left open
SpecWF ==
    /\ SpecW
    /\ WF_vars(WorkerNext)
    /\ WF_vars(DtorSignal) /\ WF_vars(DtorJoin)
    /\ WF_vars(CallerRead \/ CallerSend \/ CallerReply \/ CallerEnd)

\* ------------------------------------------------------ concurrent operations
\* one session object serves every call
SessionOf_shared(t) == 1

\* lines 590, 547, 1043: the session is a local object of the call
SessionOf(t) == t

\* the operations and the arguments they are called with
OpArgs(op) ==
    IF op = "lookup"
        THEN [groups : {<<>>, <<1>>}, cflags : {0}, ioflags : {0}]
        ELSE [groups : {<<>>, <<1>>}, cflags : 0..1, ioflags : 0..1]

\* lines 590, 547-551, 1043-1045: the call starts: session, get_groups
OpBegin(t) ==
    /\ t_pc[t] = "idle"
    /\ \E op \in {"write", "lookup", "read_async"} :
        \E a \in OpArgs(op) : \E lg \in get_groups(a.groups, 0) :
            /\ t_op' = [t_op EXCEPT ![t] = op]
            /\ t_args' = [t_args EXCEPT ![t] = a]
            /\ t_lgroups' = [t_lgroups EXCEPT ![t] = lg]
    /\ sessions' = [sessions EXCEPT ![SessionOf(t)] = DefaultSession]
    /\ t_pc' = [t_pc EXCEPT ![t] = "settings"]
    /\ UNCHANGED t_call
    /\ UNCHANGED <<cfgvars, writevars, qvars, gvars, lvars, bvars, wvars>>

\* lines 593-594, 1047-1048: set_cflags, set_ioflags; line 548: set_filter
SetSettings(t) ==
    /\ t_pc[t] = "settings"
    /\ sessions' = [sessions EXCEPT ![SessionOf(t)] =
                      IF t_op[t] = "lookup"
                        THEN [@ EXCEPT !.filter = "all"]
                        ELSE [@ EXCEPT !.cflags = t_args[t].cflags,
                                       !.ioflags = t_args[t].ioflags]]
    /\ t_pc' = [t_pc EXCEPT ![t] = "groups"]
    /\ UNCHANGED <<t_op, t_args, t_lgroups, t_call>>
    /\ UNCHANGED <<cfgvars, writevars, qvars, gvars, lvars, bvars, wvars>>

\* lines 631, 556, 1051: set_groups(lgroups)
SetGroups(t) ==
    /\ t_pc[t] = "groups"
    /\ sessions' = [sessions EXCEPT ![SessionOf(t)] = [@ EXCEPT !.groups = t_lgroups[t]]]
    /\ t_pc' = [t_pc EXCEPT ![t] = "call"]
    /\ UNCHANGED <<t_op, t_args, t_lgroups, t_call>>
    /\ UNCHANGED <<cfgvars, writevars, qvars, gvars, lvars, bvars, wvars>>

\* lines 644-678, 557, 1053-1056: the storage call goes out with the
\* settings of the session it is made on
IssueCall(t) ==
    /\ t_pc[t] = "call"
    /\ t_call' = [t_call EXCEPT ![t] =
                    <<[op |-> t_op[t],
                       groups |-> sessions[SessionOf(t)].groups,
                       cflags |-> sessions[SessionOf(t)].cflags,
                       ioflags |-> sessions[SessionOf(t)].ioflags,
                       filter |-> sessions[SessionOf(t)].filter]>>]
    /\ t_pc' = [t_pc EXCEPT ![t] = "issued"]
    /\ UNCHANGED <<t_op, t_args, t_lgroups, sessions>>
    /\ UNCHANGED <<cfgvars, writevars, qvars, gvars, lvars, bvars, wvars>>

\* the call ends; its session is destroyed with it
OpEnd(t) ==
    /\ t_pc[t] = "issued"
    /\ t_pc' = [t_pc EXCEPT ![t] = "idle"]
    /\ t_op' = [t_op EXCEPT ![t] = "none"]
    /\ t_args' = [t_args EXCEPT ![t] = NoArgs]
    /\ t_lgroups' = [t_lgroups EXCEPT ![t] = <<>>]
    /\ t_call' = [t_call EXCEPT ![t] = <<>>]
    /\ UNCHANGED sessions
    /\ UNCHANGED <<cfgvars, writevars, qvars, gvars, lvars, bvars, wvars>>

InitT ==
    /\ m_groups = <<2, 1>>
    /\ m_replication_count = Len(m_groups)
    /\ m_success_copies_num = SUCCESS_COPIES_TYPE__QUORUM
    /\ c_replication_count = 0 /\ c_success_copies_num = 0
    /\ m_metabase_usage = ctor_metabase_usage /\ c_groups = m_groups
    /\ m_die_limit = 1 /\ m_chunk_size = 0
    /\ pc = "idle" /\ outcome = "none"
    /\ IdleLocals
    /\ q_mode = 0 /\ q_R = 0 /\ q_s = 0 /\ q_res = "none"
    /\ IdleG /\ IdleL /\ IdleLater

NextT ==
    \E t \in 1..MaxThreads :
        OpBegin(t) \/ SetSettings(t) \/ SetGroups(t) \/ IssueCall(t) \/ OpEnd(t)

SpecT == InitT /\ [][NextT]_vars

\* ------------------------------------------------------------------ lookup_impl
\* lines 1166-1169
ping(state_num) == state_num >= m_die_limit

\* a response of session.lookup(key).get() under filters::all: entries of the
\* queried groups, each an error entry or not
Responses(lg) ==
    UNION {[1..n -> [group : Range(lg), err : BOOLEAN]] : n \in 0..MaxEntries}

\* index of the entry lookup_impl returns: the first one without error
FirstGood(resp) ==
    IF \E i \in 1..Len(resp) : ~resp[i].err
        THEN CHOOSE i \in 1..Len(resp) :
                ~resp[i].err /\ \A j \in 1..i-1 : resp[j].err
        ELSE 0

\* lookup_result_t(entry, ...): the lookup result of the entry's group
parse_lookup(entry) == entry.group

\* the groups of the error entries stay in the list
DropGroups_none(lg, gs) == lg

\* lines 566, 568: std::remove of every group in gs, then erase
DropGroups(lg, gs) == SelectSeq(lg, LAMBDA g : g \notin gs)

\* lines 545-555: lookup_impl up to the first session lookup
LookupBegin ==
    /\ l_pc = "idle"
    /\ \E groups \in GroupLists, state_num \in 0..1 :
        /\ l_groups' = groups /\ l_state_num' = state_num
        /\ IF get_groups(groups, 0) = {}
             THEN /\ l_pc' = "failed" /\ l_outcome' = "NoGroups"
                  /\ UNCHANGED <<l_sel, l_lgroups, l_queries, m_groups>>
             ELSE \E sel \in get_groups(groups, 0) :
                    /\ l_sel' = sel /\ l_lgroups' = sel /\ l_queries' = <<sel>>
                    /\ l_pc' = "wait" /\ l_outcome' = "none"
                    /\ m_groups' = m_groups_after(groups, sel)
    /\ UNCHANGED <<l_resp, l_dropped, l_result>>
    /\ UNCHANGED <<cfgrest, writevars, qvars, gvars, latervars>>

\* lines 556-570: the response of a session lookup; return on the first entry
\* without error, else drop the groups of the entries and query the rest
LookupReply ==
    /\ l_pc = "wait"
    /\ \E resp \in Responses(l_lgroups) :
        LET k == FirstGood(resp)
            errs == {resp[i].group : i \in 1..Len(resp)}
            nl == DropGroups(l_lgroups, errs)
        IN  /\ l_resp' = resp
            /\ IF k # 0
                 THEN /\ l_pc' = "returned" /\ l_outcome' = "ok"
                      /\ l_result' = parse_lookup(resp[k])
                      /\ UNCHANGED <<l_lgroups, l_queries, l_dropped>>
               ELSE IF nl = <<>>
                 THEN /\ l_pc' = "failed" /\ l_outcome' = "NotFound"
                      /\ l_lgroups' = nl /\ l_dropped' = l_dropped \cup errs
                      /\ UNCHANGED <<l_queries, l_result>>
               ELSE /\ Len(l_queries) < MaxLookups
                    /\ l_lgroups' = nl /\ l_dropped' = l_dropped \cup errs
                    /\ l_queries' = Append(l_queries, nl)
                    /\ UNCHANGED <<l_pc, l_outcome, l_result>>
    /\ UNCHANGED <<l_groups, l_state_num, l_sel>>
    /\ UNCHANGED <<cfgvars, writevars, qvars, gvars, latervars>>

\* lines 557, 571-576: the session lookup raises, lookup_impl rethrows
LookupThrow ==
    /\ l_pc = "wait"
    /\ l_pc' = "failed" /\ l_outcome' = "SessionError"
    /\ UNCHANGED <<l_groups, l_state_num, l_sel, l_lgroups, l_queries, l_resp,
                   l_dropped, l_result>>
    /\ UNCHANGED <<cfgvars, writevars, qvars, gvars, latervars>>

\* the caller has the result or the exception; the next call may start
LookupEnd ==
    /\ l_pc \in {"returned", "failed"}
    /\ l_pc' = "idle" /\ l_outcome' = "none" /\ l_groups' = <<>> /\ l_state_num' = 0
    /\ l_sel' = <<>> /\ l_lgroups' = <<>> /\ l_queries' = <<>> /\ l_resp' = <<>>
    /\ l_dropped' = {} /\ l_result' = 0
    /\ UNCHANGED <<cfgvars, writevars, qvars, gvars, latervars>>

InitL ==
    /\ m_groups \in DefaultLists
    /\ m_replication_count = Len(m_groups)
    /\ m_success_copies_num = SUCCESS_COPIES_TYPE__QUORUM
    /\ c_replication_count = 0 /\ c_success_copies_num = 0
    /\ m_metabase_usage = ctor_metabase_usage /\ c_groups = m_groups
    /\ m_die_limit = 1 /\ m_chunk_size = 0
    /\ pc = "idle" /\ outcome = "none"
    /\ IdleLocals
    /\ q_mode = 0 /\ q_R = 0 /\ q_s = 0 /\ q_res = "none"
    /\ IdleG /\ IdleL /\ IdleLater

NextL == LookupBegin \/ LookupReply \/ LookupThrow \/ LookupEnd

SpecL == InitL /\ [][NextL]_vars

\* ---------------------------------------------------------------- properties
\* the acceptance table of the specification, section 4.1
Accepts(mode, R, s) ==
    IF mode = SUCCESS_COPIES_TYPE__ANY THEN s > 0
    ELSE IF mode = SUCCESS_COPIES_TYPE__QUORUM THEN 2 * s > R
    ELSE IF mode = SUCCESS_COPIES_TYPE__ALL THEN s = R
    ELSE s >= mode

CeilDiv(a, b) == (a + b - 1) \div b

IsBody(c) == c.op \in BodyOps

Bodies == SelectSeq(calls, IsBody)

Removes == SelectSeq(calls, LAMBDA c : c.op = "remove")

\* groups that accepted the object or a part of it during the call
AcceptedGroups == UNION {Range(calls[i].ok) : i \in 1..Len(calls)}

\* the body upload ended with the acceptance predicate satisfied
BodyAccepted == pc \in {"wait_meta", "returned"} \/ (pc = "failed" /\ outcome = "MetadataError")

\* C1: a write that returns normally returns a number of lookup entries that
\* satisfies the acceptance table for the effective mode and replication count
Thm_C1 ==
    pc = "returned" => Accepts(success_copies_num, replication_count, Len(ret))

Wit_C1 ==
    /\ pc = "returned" /\ chunked
    /\ success_copies_num = SUCCESS_COPIES_TYPE__QUORUM
    /\ Len(ret) = 2 /\ replication_count = 3

\* C2: when the last body call returned a set of groups that does not satisfy
\* acceptance, the write has issued a remove against the whole of lgroups as its
\* last session call, issued no metadata write, and failed
Thm_C2 ==
    (Bodies # <<>> /\ Bodies[Len(Bodies)].reply = "ok"
        /\ ~Accepts(success_copies_num, replication_count, Len(Bodies[Len(Bodies)].ok)))
    => /\ pc = "failed" /\ outcome = "WriteRejected"
       /\ LastCall.op = "remove" /\ LastCall.groups = lgroups
       /\ \A i \in 1..Len(calls) : calls[i].op # "write_metadata"

Wit_C2 ==
    /\ pc = "failed" /\ outcome = "WriteRejected" /\ chunked
    /\ Len(Bodies) >= 2 /\ upload_groups # <<>> /\ Len(upload_groups) < Len(lgroups)
    /\ LastCall.op = "remove"

Thm_C4 ==
    q_res # "none" => ((q_res = "good") <=> Accepts(q_mode, q_R, q_s))

Wit_C4 ==
    /\ q_res = "good" /\ q_mode = SUCCESS_COPIES_TYPE__QUORUM /\ q_R = 7 /\ q_s = 4

\* C5: in a chunked write a chunk after the first is issued only once the
\* previous chunk is answered, only to the groups that answered it without
\* error, and only if those groups satisfy acceptance
Thm_C5 ==
    chunked =>
      \A i \in 2..Len(calls) :
        calls[i].op \in {"write_plain", "write_commit"} =>
          /\ calls[i-1].reply = "ok"
          /\ calls[i].groups = calls[i-1].ok
          /\ Range(calls[i].groups) \subseteq Range(calls[i-1].groups)
          /\ Accepts(success_copies_num, replication_count, Len(calls[i-1].ok))

Wit_C5 ==
    /\ chunked /\ Len(calls) >= 3
    /\ calls[3].op = "write_commit" /\ calls[2].op = "write_plain"
    /\ Len(calls[1].groups) = 3 /\ Len(calls[2].groups) = 3 /\ Len(calls[3].groups) = 2

\* C6 as stated: a chunked write in which acceptance holds after every chunk
\* issues exactly ceil(S/C) body calls: a prepare, plain writes, a commit
Orig_C6 ==
    (chunked /\ BodyAccepted) =>
      /\ Len(Bodies) = CeilDiv(a_content_size, m_chunk_size)
      /\ Bodies[1].op = "write_prepare"
      /\ Bodies[Len(Bodies)].op = "write_commit"
      /\ \A i \in 2..Len(Bodies)-1 : Bodies[i].op = "write_plain"

\* C7 as stated: the chunks of a chunked write are issued at offsets 0, C, 2C,
\* ..., all but the last carry C bytes, the last is a commit with the rest, the
\* ones in between are plain writes, and they cover the body exactly once
Orig_C7 ==
    (chunked /\ BodyAccepted) =>
      LET n == Len(Bodies) IN
      /\ \A i \in 1..n : Bodies[i].offset = (i - 1) * m_chunk_size
      /\ \A i \in 1..n-1 : Bodies[i].len = m_chunk_size
      /\ Bodies[n].op = "write_commit"
      /\ Bodies[n].offset + Bodies[n].len = a_content_size
      /\ \A i \in 2..n-1 : Bodies[i].op = "write_plain"

\* C8 as stated: the prepare of a chunked write goes to the full lgroups, at
\* offset 0, with the first min(chunk_size, total) bytes and total reserved,
\* whatever offset the caller passed
Orig_C8 ==
    (chunked /\ calls # <<>>) =>
      /\ calls[1].op = "write_prepare"
      /\ calls[1].groups = lgroups
      /\ calls[1].offset = 0
      /\ calls[1].len = Min(m_chunk_size, a_content_size)
      /\ calls[1].reserved = a_content_size

\* C9: after a chunked write that satisfies acceptance the groups that got a
\* remove are exactly lgroups minus the surviving set; a remove is issued iff
\* that difference is not empty
Thm_C9 ==
    (chunked /\ BodyAccepted) =>
      LET surv == Range(Bodies[Len(Bodies)].ok)
          diff == Range(lgroups) \ surv
      IN  /\ Len(Removes) = IF diff = {} THEN 0 ELSE 1
          /\ \A i \in 1..Len(Removes) : Range(Removes[i].groups) = diff

Wit_C9 ==
    /\ chunked /\ pc = "returned" /\ Len(Removes) = 1
    /\ Len(lgroups) = 3 /\ Len(ret) = 2

\* C10 as stated: a one-shot write that satisfies acceptance issues a remove
\* against exactly the target groups that did not succeed
Orig_C10 ==
    (~chunked /\ BodyAccepted /\ Range(lgroups) # Range(upload_groups)) =>
      /\ Len(Removes) = 1
      /\ Range(Removes[1].groups) = Range(lgroups) \ Range(upload_groups)

\* C10 amended: a one-shot write that satisfies acceptance returns the groups
\* that succeeded and issues no remove at all
Thm_C10 ==
    (~chunked /\ BodyAccepted) =>
      /\ Removes = <<>>
      /\ pc = "returned" => ret = Bodies[1].ok

Wit_C10 ==
    /\ ~chunked /\ pc = "returned" /\ m_chunk_size = 0 /\ a_ioflags = {}
    /\ success_copies_num = SUCCESS_COPIES_TYPE__QUORUM
    /\ Len(lgroups) = 3 /\ Len(ret) = 2 /\ lgroups[3] \notin Range(ret)

Metas == SelectSeq(calls, LAMBDA c : c.op = "write_metadata")

\* the call in progress or just ended is a write (not a write_async)
InWrite == pc \notin {"idle", "returned_async"} /\ outcome # "async"

\* C11: a write takes the chunked path exactly when none of PREPARE, COMMIT,
\* PLAIN_WRITE is set, the chunk size is positive, the payload is larger than
\* the chunk size and the key is name-based; otherwise it issues exactly one
\* body call
Thm_C11 ==
    (InWrite /\ calls # <<>>) =>
      LET cond == /\ DNET_IO_FLAGS_PREPARE \notin a_ioflags
                  /\ DNET_IO_FLAGS_COMMIT \notin a_ioflags
                  /\ DNET_IO_FLAGS_PLAIN_WRITE \notin a_ioflags
                  /\ m_chunk_size > 0
                  /\ a_content_size > m_chunk_size
                  /\ ~a_by_id
      IN  /\ cond => (chunked /\ calls[1].op = "write_prepare"
                        /\ calls[1].len <= m_chunk_size)
          /\ ~cond => (~chunked /\ Len(Bodies) = 1 /\ calls[1].len = a_content_size)

Wit_C11 ==
    /\ pc = "returned" /\ chunked /\ Len(Bodies) = 2
    /\ a_content_size = 4 /\ m_chunk_size = 2 /\ a_offset = 0

\* C12: on every accepted body upload exactly one metadata write is issued,
\* after the last body call and any compensation remove, and it targets
\* exactly the surviving set; no metadata write is issued on a rejected upload
Thm_C12 ==
    /\ BodyAccepted =>
         /\ Len(Metas) = 1
         /\ LastCall.op = "write_metadata"
         /\ Range(LastCall.groups) = Range(Bodies[Len(Bodies)].ok)
    /\ (pc = "failed" /\ outcome = "WriteRejected") => Metas = <<>>

Wit_C12 ==
    /\ pc = "returned" /\ chunked /\ Len(Removes) = 1
    /\ LastCall.op = "write_metadata" /\ Len(lgroups) = 3
    /\ Len(LastCall.groups) = 2

\* C13: if the metadata write fails the write call fails, no remove is issued
\* for the body, and the object stays in the surviving groups
Thm_C13 ==
    (calls # <<>> /\ LastCall.op = "write_metadata" /\ LastCall.reply = "throw") =>
      /\ pc = "failed" /\ outcome = "MetadataError"
      /\ \A i \in 1..Len(Removes) :
            Range(Removes[i].groups) \cap Range(upload_groups) = {}
      /\ upload_groups # <<>>
      /\ Range(upload_groups) \subseteq holds

Wit_C13 ==
    /\ pc = "failed" /\ outcome = "MetadataError"
    /\ Len(upload_groups) = 2 /\ Range(upload_groups) \subseteq holds
    /\ LastCall.reply = "throw"

\* C14: if the session has fewer live states than the die limit, a write fails
\* with the too-few-states error before group selection; no body write, no
\* remove and no metadata write is issued, and the call is not retried
Thm_C14 ==
    pc # "idle" =>
      /\ a_state_num < m_die_limit =>
           /\ pc = "failed" /\ outcome = "TooFewStates"
           /\ calls = <<>> /\ lgroups = <<>> /\ session_groups = <<>>
      /\ outcome = "TooFewStates" => a_state_num < m_die_limit

Wit_C14 ==
    /\ pc = "failed" /\ outcome = "TooFewStates"
    /\ a_state_num = 0 /\ m_die_limit = 1
    /\ a_groups # <<>> /\ m_groups # <<>>

\* C18: in every write lgroups has at most R elements, is a subset of the
\* caller's groups (of the default groups when the caller gave none), and
\* every group list handed to the session (body write, remove, metadata
\* write) is a subset of lgroups
Thm_C18 ==
    pc # "idle" =>
      /\ Len(lgroups) <= replication_count
      /\ Range(lgroups) \subseteq
            (IF a_groups # <<>> THEN Range(a_groups) ELSE Range(m_groups))
      /\ Range(session_groups) \subseteq Range(lgroups)
      /\ \A i \in 1..Len(calls) : Range(calls[i].groups) \subseteq Range(lgroups)

Wit_C18 ==
    /\ pc = "returned" /\ chunked /\ Removes # <<>> /\ Metas # <<>>
    /\ a_groups = <<>> /\ Len(m_groups) = 3
    /\ replication_count = 2 /\ Len(lgroups) = 2

\* C15 as stated: when the live-state count is below the die limit (ping()
\* is false) every operation, lookup among them, refuses with the
\* too-few-states error and issues no storage call
Orig_C15 ==
    (l_pc # "idle" /\ ~ping(l_state_num)) =>
      (l_pc = "failed" /\ l_outcome = "TooFewStates" /\ l_queries = <<>>)

IsDistinct(s) == \A i, j \in 1..Len(s) : i # j => s[i] # s[j]

\* C16: with no explicit groups, a non-empty distinct default list and a
\* count k > 0, get_groups returns exactly min(k, |default|) distinct groups,
\* all from the default list, the first being the head of the default list
Thm_C16 ==
    (g_op = "get_groups" /\ g_groups = <<>> /\ m_groups # <<>>
        /\ IsDistinct(m_groups) /\ g_count > 0)
    => /\ ~g_threw
       /\ Len(g_res) = Min(g_count, Len(m_groups))
       /\ IsDistinct(g_res)
       /\ Range(g_res) \subseteq Range(m_groups)
       /\ g_res[1] = m_groups[1]

Wit_C16 ==
    /\ g_op = "get_groups" /\ g_groups = <<>> /\ Len(m_groups) = 3 /\ g_count = 2
    /\ g_res = <<m_groups[1], m_groups[3]>>

\* C17: a non-empty explicit group list is returned in the caller's order,
\* never shuffled or mixed with the default list, only cut to count when
\* 0 < count < size; when the explicit and the default list are both empty
\* the selector fails and the calling operation issues no storage call
Thm_C17 ==
    g_op # "none" =>
      /\ g_groups # <<>> =>
           /\ ~g_threw
           /\ g_res = IF 0 < g_count /\ g_count < Len(g_groups)
                        THEN SubSeq(g_groups, 1, g_count) ELSE g_groups
      /\ (g_groups = <<>> /\ m_groups = <<>>) => (g_threw /\ g_calls = <<>>)
      /\ g_threw => (g_groups = <<>> /\ m_groups = <<>>)

Wit_C17 ==
    /\ g_op = "get_groups" /\ Len(g_groups) = 3 /\ g_count = 2
    /\ g_res = SubSeq(g_groups, 1, 2) /\ m_groups # <<>> /\ m_groups # g_groups

Needed(mode, R) ==
    IF mode = SUCCESS_COPIES_TYPE__ANY THEN 1
    ELSE IF mode = SUCCESS_COPIES_TYPE__QUORUM THEN (R \div 2) + 1
    ELSE IF mode = SUCCESS_COPIES_TYPE__ALL THEN R
    ELSE mode

\* the success mode in force in the bulk write
BulkMode == IF b_scn # 0 THEN b_scn ELSE m_success_copies_num

\* the session answered the bulk write
BulkAnswered == b_op = "bulk_write" /\ b_outcome \in {"ok", "BulkWriteRejected"}

\* the groups that replied successfully for key k in the bulk write
Succ(k) ==
    LET mine == SelectSeq(b_resp, LAMBDA e : e.id = transform(k))
    IN  [i \in 1..Len(mine) |-> mine[i].group]

BulkRemovesOf(k) == SelectSeq(b_calls, LAMBDA c : c.op = "remove" /\ c.key = k)

\* C21 as stated: bulk_write fails with BulkWriteRejected whenever at least
\* one key of the batch fails acceptance, a key for which no group replied
\* successfully included
Orig_C21 ==
    (BulkAnswered /\ b_keys # <<>>
        /\ \E k \in Range(b_keys) : ~Accepts(BulkMode, b_rc, Len(Succ(k))))
    => b_outcome = "BulkWriteRejected"

\* C22 as stated: the required number of successes per key in bulk_write is
\* the T of section 4.1, so a batch in which every key succeeded in at least
\* T groups (N groups for mode N) is accepted
Orig_C22 ==
    (BulkAnswered /\ b_keys # <<>>
        /\ \A k \in Range(b_keys) : Len(Succ(k)) >= Needed(BulkMode, b_rc))
    => b_outcome = "ok"

\* C23: when bulk_write is rejected, for every key of the batch accepted by
\* at least one group a remove is issued against exactly the groups where
\* the key was accepted, before the failure is raised; no remove targets a
\* group for a key that group did not accept
Thm_C23 ==
    (b_op = "bulk_write" /\ b_outcome = "BulkWriteRejected") =>
      /\ b_calls[1].op = "bulk_write"
      /\ \A k \in Range(b_keys) :
            IF Succ(k) # <<>>
              THEN /\ Len(BulkRemovesOf(k)) = 1
                   /\ Range(BulkRemovesOf(k)[1].groups) = Range(Succ(k))
              ELSE BulkRemovesOf(k) = <<>>
      /\ \A i \in 2..Len(b_calls) :
            /\ b_calls[i].op = "remove" /\ b_calls[i].key \in Range(b_keys)
            /\ Range(b_calls[i].groups) \subseteq Range(Succ(b_calls[i].key))

Wit_C23 ==
    /\ b_op = "bulk_write" /\ b_outcome = "BulkWriteRejected"
    /\ b_keys = <<2, 1>> /\ Len(b_lgroups) = 3
    /\ Len(Succ(1)) = 2 /\ Len(Succ(2)) = 1 /\ Len(b_calls) = 3

\* C24: bulk_read returns a map in which every key is one of the requested
\* keys; a requested key is present iff the session response has an entry
\* for its raw id, and keys missing from the response are absent
Thm_C24 ==
    (b_op = "bulk_read" /\ b_outcome = "ok") =>
      /\ DOMAIN b_res \subseteq Range(b_keys)
      /\ \A k \in Range(b_keys) :
            /\ k \in DOMAIN b_res <=> transform(k) \in Range(b_resp)
            /\ k \in DOMAIN b_res => b_res[k] = transform(k)

Wit_C24 ==
    /\ b_op = "bulk_read" /\ b_outcome = "ok"
    /\ b_keys = <<1, 2>> /\ b_resp = <<transform(2)>> /\ DOMAIN b_res = {2}

\* C25 as stated: range_get returns the data bodies of the matching records
\* when NODATA is not set, and when NODATA is set a vector with exactly one
\* element, the decimal text of the number of matching records
Orig_C25 ==
    (b_op = "range_get" /\ b_resp # <<>> /\ ~b_resp[1].thrown
        /\ b_resp[1].entries # <<>>)
    => /\ b_outcome = "ok"
       /\ b_res = IF DNET_IO_FLAGS_NODATA \in b_ioflags
                    THEN <<ToString(NumSum(b_resp[1].entries))>>
                    ELSE [i \in 1..Len(b_resp[1].entries) |-> b_resp[1].entries[i].data]

\* C26 as stated: while the terminate flag is not set the refresh worker
\* attempts a refresh again after every period: in a run where the proxy
\* stays alive (and callers refresh only finitely often) the worker sends
\* requests infinitely often
Orig_C26 ==
    m_cocaine_dealer =>
      \/ <>(d_pc # "alive")
      \/ []<>(w_pc = "rpc")

\* C27 as stated: once shutdown has set the terminate flag and signalled the
\* condition, the worker exits at its next wake-up without sending another
\* refresh request: no request of the worker that follows a wake-up is sent
\* with the flag set
Orig_C27 ==
    \A i \in 1..Len(requests) :
        ~(requests[i].by = "worker" /\ requests[i].done /\ requests[i].after = "notify")

\* C28: destruction of the proxy always completes: the worker exists iff a
\* metabalancer transport is configured, and wherever the worker is when
\* the destructor starts (not yet running, inside a refresh, waiting), the
\* worker exits and join returns, provided each refresh RPC returns; without
\* a worker the destructor returns as well
Thm_C28 ==
    /\ [](w_pc # "none" <=> m_cocaine_dealer)
    /\ [](d_pc = "done" => w_pc \in {"exited", "none"})
    /\ (d_pc = "lock") ~> (d_pc = "done")

Wit_C28 ==
    /\ d_pc = "done" /\ w_pc = "exited" /\ Len(requests) = 2
    /\ requests[2].by = "worker" /\ requests[2].after = "notify"

\* C29 as stated: every get_group_weights request of one proxy carries a
\* stamp strictly greater than that of every request sent earlier, also when
\* a caller's synchronous refresh runs concurrently with the worker's
Orig_C29 ==
    \A i, j \in 1..Len(requests) : i < j => requests[i].stamp < requests[j].stamp

\* C30: per-call settings never leak between concurrent operations: every
\* storage call goes out with the groups, cflags, ioflags and filter that
\* its own operation set, in every interleaving
Thm_C30 ==
    \A t \in 1..MaxThreads :
        t_call[t] # <<>> =>
          /\ t_call[t][1].groups = t_lgroups[t]
          /\ t_call[t][1].cflags = t_args[t].cflags
          /\ t_call[t][1].ioflags = t_args[t].ioflags
          /\ t_call[t][1].filter = IF t_op[t] = "lookup" THEN "all" ELSE "positive"

Wit_C30 ==
    /\ t_pc[1] = "issued" /\ t_pc[2] = "issued"
    /\ t_op[1] = "write" /\ t_op[2] = "lookup"
    /\ t_call[1][1].groups = <<1>> /\ t_call[1][1].cflags = 1
    /\ t_call[2][1].groups = <<2, 1>> /\ t_call[2][1].filter = "all"

\* C31: a remove that fails never changes the outcome of write: after a
\* rejected upload the call still fails with the write-rejected error, and
\* after an accepted chunked upload the metadata write follows the remove and
\* the call returns the lookups of the commit call
Thm_C31 ==
    \A i \in 1..Len(calls) :
        (calls[i].op = "remove" /\ calls[i].reply = "error")
        => IF helper_upload_is_good(success_copies_num, replication_count, upload_groups)
             THEN /\ chunked /\ i > 1 /\ i < Len(calls)
                  /\ calls[i + 1].op = "write_metadata"
                  /\ pc \in {"wait_meta", "returned", "failed"}
                  /\ pc = "failed" => outcome = "MetadataError"
                  /\ pc = "returned"
                        => /\ outcome = "ok"
                           /\ calls[i - 1].op = "write_commit"
                           /\ ret = calls[i - 1].ok
             ELSE /\ i = Len(calls)
                  /\ pc = "failed" /\ outcome = "WriteRejected"

Wit_C31 ==
    /\ pc = "returned" /\ chunked
    /\ \E i \in 1..Len(calls) :
          /\ calls[i].op = "remove" /\ calls[i].reply = "error"
          /\ Range(calls[i].groups) \cap holds # {}

\* C33: the vector a successful chunked write returns is the lookup vector of
\* the commit call only: one entry per group that replied without error to
\* the commit, none of the prepare or plain calls
Thm_C33 ==
    (pc = "returned" /\ chunked)
    => /\ Bodies[Len(Bodies)].op = "write_commit"
       /\ ret = Bodies[Len(Bodies)].ok
       /\ \A i \in 1..Len(Bodies) - 1 : Bodies[i].op # "write_commit"

Wit_C33 ==
    /\ pc = "returned" /\ chunked /\ Len(Bodies) = 3
    /\ Len(ret) < Len(Bodies[1].ok) /\ Len(ret) < Len(Bodies[2].ok)

\* the PREPARE / COMMIT / PLAIN_WRITE flavour the io flags select
Flavour(ioflags) ==
    IF DNET_IO_FLAGS_PREPARE \in ioflags THEN "write_prepare"
    ELSE IF DNET_IO_FLAGS_COMMIT \in ioflags THEN "write_commit"
    ELSE "write_plain"

\* C35: with PREPARE, COMMIT or PLAIN_WRITE in the io flags write issues
\* exactly one body call, of the flavour chosen with PREPARE before COMMIT
\* before PLAIN_WRITE, never chunks, and returns the lookups of that call
Thm_C35 ==
    (InWrite /\ a_ioflags # {} /\ calls # <<>>)
    => /\ ~chunked
       /\ Len(Bodies) = 1
       /\ Bodies[1].op = Flavour(a_ioflags)
       /\ Bodies[1].len = a_content_size
       /\ pc = "returned" => ret = Bodies[1].ok

Wit_C35 ==
    /\ pc = "returned" /\ ret # <<>>
    /\ a_ioflags = {DNET_IO_FLAGS_PREPARE, DNET_IO_FLAGS_COMMIT, DNET_IO_FLAGS_PLAIN_WRITE}
    /\ m_chunk_size # 0 /\ a_content_size > m_chunk_size

\* C38: write_async applies the pre-checks and the target list of write,
\* issues exactly one session write and hands its result over: no acceptance
\* is evaluated, no remove and no metadata write is issued
Thm_C38 ==
    outcome = "async"
    => /\ ~TooFewStates(a_state_num, m_die_limit)
       /\ \E sel \in get_groups(a_groups, 0) :
             lgroups = IF replication_count # 0 /\ replication_count < Len(sel)
                         THEN SubSeq(sel, 1, replication_count) ELSE sel
       /\ Len(calls) = 1 /\ IsBody(calls[1])
       /\ calls[1].groups = lgroups /\ calls[1].len = a_content_size
       /\ calls[1].op = IF a_ioflags = {} THEN "write_data" ELSE Flavour(a_ioflags)
       /\ calls[1].reply = "pending"
       /\ upload_groups = <<>> /\ ret = <<>>
       /\ pc = "returned_async"

\* an asynchronous write of a content larger than the chunk size, to fewer
\* groups than the default list has
Wit_C38 ==
    /\ outcome = "async" /\ a_groups = <<>> /\ a_ioflags = {}
    /\ Len(lgroups) = 2 /\ Len(m_groups) = 3
    /\ m_chunk_size # 0 /\ a_content_size > m_chunk_size /\ ~a_by_id

\* C34 as stated: while the metadata write runs the command flags of the
\* session are 0, and after it they are the cflags the caller passed
Orig_C34 ==
    /\ pc = "wait_meta" => session_cflags = {}
    /\ pc = "returned" => session_cflags = a_cflags

\* the replication count and the success mode of the configuration
ConfiguredR ==
    IF c_replication_count = 0 THEN Len(m_groups) ELSE c_replication_count

ConfiguredMode ==
    IF c_success_copies_num = 0 THEN SUCCESS_COPIES_TYPE__QUORUM ELSE c_success_copies_num

ExpectedR(groups) == IF groups # <<>> THEN Len(groups) ELSE ConfiguredR

ExpectedMode(scn) == IF scn # 0 THEN scn ELSE ConfiguredMode

Thm_C39 ==
    /\ m_metabase_usage = PROXY_META_NONE
    /\ outcome # "MetabaseError"
    /\ pc \in {"wait_body", "wait_meta", "returned", "returned_async"}
          => \E sel \in get_groups(a_groups, 0) :
                lgroups = IF replication_count # 0 /\ replication_count < Len(sel)
                            THEN SubSeq(sel, 1, replication_count) ELSE sel

\* writes for which the metabase block would ask the metabalancer
Wit_C39 ==
    /\ pc \in {"returned", "returned_async"}
    /\ Len(a_groups) # replication_count /\ Len(lgroups) = 2

\* C32: the default group list is never modified after construction: in
\* every state, after the shuffle and the cut of the selector and after the
\* eliminations of lookup, it equals the configured list element for element
Thm_C32 ==
    m_groups = c_groups

\* a lookup on the default list that queried a shuffled order and dropped
\* every group
Wit_C32 ==
    /\ l_pc = "failed" /\ l_outcome = "NotFound" /\ l_groups = <<>>
    /\ Len(c_groups) = 3 /\ l_sel # c_groups
    /\ l_lgroups = <<>> /\ l_dropped = Range(c_groups)

\* C37 as stated: every round of lookup returns or removes at least one group
\* from the candidate list, so a lookup issues at most as many session
\* lookups as the selector gave groups, an empty response included
Orig_C37 ==
    /\ Len(l_queries) <= Len(l_sel)
    /\ \A i \in 1..Len(l_queries) - 1 : Len(l_queries[i + 1]) < Len(l_queries[i])

\* C40 as stated: lookup_addr returns one address per group of the list the
\* selector produced, in the order of that list; without explicit groups one
\* address per default group
Orig_C40 ==
    (g_op = "lookup_addr" /\ ~g_threw)
    => /\ Len(g_addrs) = Len(g_res)
       /\ \A i \in 1..Len(g_res) :
             g_addrs[i] = [host |-> <<"host", ToString(g_res[i])>>, port |-> 1025]
       /\ g_groups = <<>> => Len(g_addrs) = Len(m_groups)

====
